---- MODULE Spec2Model ----
(***************************************************************************)
(* Model of the text-styler StyleManager (styleManager.ts): the span       *)
(* parser parseSelection, the activation check of toggleStyle, the         *)
(* per-segment rewrite applyModificationToSegment and removeAllStyling.    *)
(* Strings are TLA+ strings handled character by character with Len,       *)
(* SubSeq and \o, so the regular expressions of the source are modelled    *)
(* by what they match.                                                     *)
(***************************************************************************)
EXTENDS Integers, Sequences, FiniteSets, TLC

(***************************************************************************)
(* String helpers (JavaScript String methods used by the source)           *)
(***************************************************************************)

\* null of `string | null`; it contains '>' and so can never be read out of
\* a start tag, whose text stops at the first '>'
Null == "<null>"

CharAt(s, i) == SubSeq(s, i, i)

UpperChars == "ABCDEFGHIJKLMNOPQRSTUVWXYZ"
LowerChars == "abcdefghijklmnopqrstuvwxyz"

\* String.prototype.indexOf(pat, i) with 1-based positions; 0 when absent
IndexFrom(s, pat, i) ==
    LET found == {j \in i..(Len(s) - Len(pat) + 1) :
                     SubSeq(s, j, j + Len(pat) - 1) = pat}
    IN  IF found = {} THEN 0
        ELSE CHOOSE j \in found : \A k \in found : j <= k

UpperSet == {CharAt(UpperChars, k) : k \in 1..Len(UpperChars)}

LowerMap == [u \in UpperSet |-> CharAt(LowerChars, IndexFrom(UpperChars, u, 1))]

LowerChar(c) == IF c \in UpperSet THEN LowerMap[c] ELSE c

RECURSIVE ToLowerCase(_)
\* String.prototype.toLowerCase, the string halved at each step
ToLowerCase(s) ==
    IF Len(s) = 0 THEN ""
    ELSE IF Len(s) = 1 THEN LowerChar(s)
    ELSE LET h == Len(s) \div 2
         IN  ToLowerCase(SubSeq(s, 1, h)) \o ToLowerCase(SubSeq(s, h + 1, Len(s)))

\* String.prototype.substring on 1-based inclusive positions, clamped
Slice(s, a, b) == SubSeq(s, a, IF b > Len(s) THEN Len(s) ELSE b)

StartsWith(s, pat) == Slice(s, 1, Len(pat)) = pat

\* the white space of the inputs considered here is the space character
IsSpace(c) == c = " "

RECURSIVE TrimStart(_)
TrimStart(s) ==
    IF s # "" /\ IsSpace(Head(s)) THEN TrimStart(Tail(s)) ELSE s

RECURSIVE TrimEnd(_)
TrimEnd(s) ==
    IF s # "" /\ IsSpace(CharAt(s, Len(s)))
    THEN TrimEnd(SubSeq(s, 1, Len(s) - 1)) ELSE s

Trim(s) == TrimEnd(TrimStart(s))

RECURSIVE Split(_, _)
\* String.prototype.split(sep) for a one-character separator:
\* "".split(';') is [""], "a;".split(';') is ["a", ""]
Split(s, sep) ==
    LET k == IndexFrom(s, sep, 1)
    IN  IF k = 0 THEN <<s>>
        ELSE <<SubSeq(s, 1, k - 1)>> \o Split(SubSeq(s, k + 1, Len(s)), sep)

RECURSIVE Join(_, _)
\* Array.prototype.join(sep)
Join(parts, sep) ==
    IF parts = <<>> THEN ""
    ELSE IF Len(parts) = 1 THEN parts[1]
    ELSE parts[1] \o sep \o Join(Tail(parts), sep)

Includes(list, x) == \E i \in 1..Len(list) : list[i] = x

RECURSIVE Without(_, _)
\* list.filter(cls => cls !== x)
Without(list, x) ==
    IF list = <<>> THEN <<>>
    ELSE IF list[1] = x THEN Without(Tail(list), x)
    ELSE <<list[1]>> \o Without(Tail(list), x)

RECURSIVE FilterBoolean(_)
\* list.filter(Boolean) on a list of strings: drops the empty strings
FilterBoolean(list) ==
    IF list = <<>> THEN <<>>
    ELSE IF list[1] = "" THEN FilterBoolean(Tail(list))
    ELSE <<list[1]>> \o FilterBoolean(Tail(list))

RECURSIVE Unique(_)
\* [...new Set(list)]: first occurrences, in order
Unique(list) ==
    IF list = <<>> THEN <<>>
    ELSE <<list[1]>> \o Unique(Without(Tail(list), list[1]))

(***************************************************************************)
(* constants.ts and types.ts                                               *)
(***************************************************************************)

CLASS_PREFIX == "styler-"

StyleClasses ==
    [BOLD |-> "bold", ITALIC |-> "italic", UNDERLINE |-> "underline",
     STRIKE |-> "strike", COLORED |-> "colored", HIGHLIGHTED |-> "highlighted",
     COLORED_UNDERLINE |-> "colored-underline", CIRCLED |-> "circled"]

StyleType ==
    {"bold", "italic", "underline", "strike", "color", "highlight",
     "colored-underline", "circled"}

\* StyleManager.classMap
classMap ==
    [t \in StyleType |->
        CASE t = "bold" -> StyleClasses.BOLD
          [] t = "italic" -> StyleClasses.ITALIC
          [] t = "underline" -> StyleClasses.UNDERLINE
          [] t = "strike" -> StyleClasses.STRIKE
          [] t = "circled" -> StyleClasses.CIRCLED
          [] t = "color" -> StyleClasses.COLORED
          [] t = "highlight" -> StyleClasses.HIGHLIGHTED
          [] t = "colored-underline" -> StyleClasses.COLORED_UNDERLINE]

\* `${CLASS_PREFIX}${this.classMap[styleType]}`
TargetClass(styleType) == CLASS_PREFIX \o classMap[styleType]

BoldClass == CLASS_PREFIX \o StyleClasses.BOLD
ItalicClass == CLASS_PREFIX \o StyleClasses.ITALIC
StrikeClass == CLASS_PREFIX \o StyleClasses.STRIKE
UnderlineClass == CLASS_PREFIX \o StyleClasses.UNDERLINE
ColoredUnderlineClass == CLASS_PREFIX \o StyleClasses.COLORED_UNDERLINE
ColoredClass == CLASS_PREFIX \o StyleClasses.COLORED
HighlightedClass == CLASS_PREFIX \o StyleClasses.HIGHLIGHTED
CircledClass == CLASS_PREFIX \o StyleClasses.CIRCLED

TextColorVar == "--styler-text-color"
HighlightColorVar == "--styler-highlight-color"
UnderlineColorVar == "--styler-underline-color"
UnderlineThicknessVar == "--styler-underline-thickness"
CircleColorVar == "--styler-circle-color"
CircleThicknessVar == "--styler-circle-thickness"

(***************************************************************************)
(* Parsing: parseSelection, extractClasses and the attribute regexps       *)
(***************************************************************************)

\* SelectionSegment['span'] when it is null
NullSpan ==
    [isNull |-> TRUE, startTag |-> "", startTagOffset |-> -1,
     endTagOffset |-> -1, classList |-> <<>>]

\* TagRegexFrom taking any tag for a span tag, as /<[^>]*>/ would
TagRegexFrom_AnyTag(s, i) ==
    LET lt == IndexFrom(s, "<", i)
        e == IF lt = 0 THEN 0 ELSE IndexFrom(s, ">", lt + 1)
    IN  IF e = 0 THEN [index |-> 0, last |-> 0]
        ELSE [index |-> lt, last |-> e]

RECURSIVE TagRegexFrom(_, _)
\* first match of /<\/?span[^>]*>/i at or after position i (1-based):
\* [index, last] of the match, index = 0 when there is none
TagRegexFrom(s, i) ==
    LET lt == IndexFrom(s, "<", i)
    IN  IF lt = 0 THEN [index |-> 0, last |-> 0]
        ELSE LET k == IF ToLowerCase(Slice(s, lt + 1, lt + 4)) = "span"
                         THEN lt + 5
                      ELSE IF ToLowerCase(Slice(s, lt + 1, lt + 5)) = "/span"
                         THEN lt + 6
                      ELSE 0
                 e == IF k = 0 THEN 0 ELSE IndexFrom(s, ">", k)
             IN  IF e # 0 THEN [index |-> lt, last |-> e]
                 ELSE TagRegexFrom(s, lt + 1)

\* tagRegex.exec(text) with lastIndex = 0
TagRegexExec(text) == TagRegexFrom(text, 1)

RECURSIVE AttrRegexFrom(_, _, _, _)
\* first match of /name="([^"]*)"/i in tag at or after i: its group 1,
\* Null when there is no match
AttrRegexFrom(tag, lowerTag, name, i) ==
    LET k == IndexFrom(lowerTag, name \o "=\"", i)
        from == k + Len(name) + 2
        q == IF k = 0 THEN 0 ELSE IndexFrom(tag, "\"", from)
    IN  IF k = 0 THEN Null
        ELSE IF q # 0 THEN SubSeq(tag, from, q - 1)
        ELSE AttrRegexFrom(tag, lowerTag, name, k + 1)

AttrRegexMatch(tag, name) == AttrRegexFrom(tag, ToLowerCase(tag), name, 1)

\* tag.match(/style="([^"]*)"/i)?.[1] || ''
StyleAttr(tag) ==
    LET m == AttrRegexMatch(tag, "style") IN IF m = Null THEN "" ELSE m

extractClasses(tag) ==
    LET m == AttrRegexMatch(tag, "class")
    IN  IF m # Null /\ m # "" THEN FilterBoolean(Split(m, " ")) ELSE <<>>

RECURSIVE ParseLoop(_, _, _, _)
RECURSIVE ParseStep(_, _, _, _, _)
\* one pass of the while loop of parseSelection, match being the result of
\* tagRegex.exec(remainingText); currentIndex is 0-based as in the source
ParseStep(selectedText, currentIndex, currentSpanInfo, segments, match) ==
    LET len == Len(selectedText)
        tagStart == IF match.index # 0 THEN match.index - 1 ELSE -1
        textEnd == IF tagStart = -1 THEN len ELSE currentIndex + tagStart
        pushed ==
            IF textEnd > currentIndex
            THEN Append(segments,
                   [text |-> SubSeq(selectedText, currentIndex + 1, textEnd),
                    start |-> currentIndex,
                    end |-> textEnd,
                    span |-> currentSpanInfo])
            ELSE segments
        tagActualStart == currentIndex + tagStart
        tagText == SubSeq(selectedText, tagActualStart + 1,
                          currentIndex + match.last)
        tagActualEnd == tagActualStart + Len(tagText)
    IN  IF match.index # 0
        THEN ParseLoop(selectedText, tagActualEnd,
                 IF StartsWith(tagText, "</span") THEN NullSpan
                 ELSE [isNull |-> FALSE,
                       startTag |-> tagText,
                       startTagOffset |-> tagActualStart,
                       endTagOffset |-> -1,
                       classList |-> extractClasses(tagText)],
                 pushed)
        ELSE ParseLoop(selectedText, len, currentSpanInfo, pushed)

\* the while loop of parseSelection
ParseLoop(selectedText, currentIndex, currentSpanInfo, segments) ==
    IF ~(currentIndex < Len(selectedText)) THEN segments
    ELSE ParseStep(selectedText, currentIndex, currentSpanInfo, segments,
             TagRegexExec(SubSeq(selectedText, currentIndex + 1,
                                 Len(selectedText))))

\* lines 384-391: no segment although the selection is not empty
ParseFallback(selectedText, segments) ==
    IF Len(segments) = 0 /\ Len(selectedText) > 0
    THEN <<[text |-> selectedText, start |-> 0,
            end |-> Len(selectedText), span |-> NullSpan]>>
    ELSE segments

parseSelection(selectedText) ==
    ParseFallback(selectedText, ParseLoop(selectedText, 0, NullSpan, <<>>))

(***************************************************************************)
(* CSS variables of a start tag: getCssVariableValue, hasCssVariable       *)
(***************************************************************************)

RECURSIVE SkipSpaces(_, _)
\* the position reached from i by the greedy \s*
SkipSpaces(s, i) ==
    IF i <= Len(s) /\ IsSpace(CharAt(s, i)) THEN SkipSpaces(s, i + 1) ELSE i

RECURSIVE VarRegexFrom(_, _, _)
\* first match of `${varName}\s*:\s*([^;]+)` at or after i: group 1
\* trimmed, Null when there is no match
VarRegexFrom(styleAttr, varName, i) ==
    LET k == IndexFrom(styleAttr, varName, i)
        c == SkipSpaces(styleAttr, k + Len(varName))
        semi == IndexFrom(styleAttr, ";", c + 1)
        rest == SubSeq(styleAttr, c + 1,
                       IF semi = 0 THEN Len(styleAttr) ELSE semi - 1)
    IN  IF k = 0 THEN Null
        ELSE IF c <= Len(styleAttr) /\ CharAt(styleAttr, c) = ":" /\ rest # ""
             THEN Trim(rest)
        ELSE VarRegexFrom(styleAttr, varName, k + 1)

getCssVariableValue(spanInfo, varName) ==
    IF spanInfo.isNull \/ spanInfo.startTag = "" THEN Null
    ELSE VarRegexFrom(StyleAttr(spanInfo.startTag), varName, 1)

\* new RegExp(`(^|;)\\s*${varName}\\s*:`).test(styleAttr)
hasCssVariable(spanInfo, varName) ==
    IF spanInfo.isNull \/ spanInfo.startTag = "" THEN FALSE
    ELSE LET parts == Split(StyleAttr(spanInfo.startTag), ";")
         IN  \E n \in 1..Len(parts) :
                LET t == TrimStart(parts[n])
                    c == SkipSpaces(t, Len(varName) + 1)
                IN  /\ StartsWith(t, varName)
                    /\ c <= Len(t)
                    /\ CharAt(t, c) = ":"

(***************************************************************************)
(* currentCssVariables: a JavaScript object with string keys, kept as the  *)
(* list of its entries in insertion order                                  *)
(***************************************************************************)

VarHas(vars, key) == \E n \in 1..Len(vars) : vars[n].key = key

\* vars[key], Null standing for undefined
VarGet(vars, key) ==
    IF VarHas(vars, key)
    THEN vars[CHOOSE n \in 1..Len(vars) : vars[n].key = key].val
    ELSE Null

\* vars[key] = val: an existing key keeps its place
VarSet(vars, key, val) ==
    IF VarHas(vars, key)
    THEN [n \in 1..Len(vars) |->
            IF vars[n].key = key THEN [key |-> key, val |-> val] ELSE vars[n]]
    ELSE Append(vars, [key |-> key, val |-> val])

RECURSIVE VarDelete(_, _)
\* delete vars[key]
VarDelete(vars, key) ==
    IF vars = <<>> THEN <<>>
    ELSE IF vars[1].key = key THEN VarDelete(Tail(vars), key)
    ELSE <<vars[1]>> \o VarDelete(Tail(vars), key)

\* !vars[key]: undefined or the empty string
VarFalsy(vars, key) == VarGet(vars, key) = Null \/ VarGet(vars, key) = ""

RECURSIVE PopulateVars(_, _)
\* the forEach over styleAttr.split(';') of applyModificationToSegment
PopulateVars(parts, vars) ==
    IF parts = <<>> THEN vars
    ELSE LET kv == Split(parts[1], ":")
             trimmedKey == Trim(kv[1])
             val == IF Len(kv) >= 2 THEN Trim(kv[2]) ELSE ""
         IN  PopulateVars(Tail(parts),
                 IF StartsWith(trimmedKey, "--styler-")
                 THEN VarSet(vars, trimmedKey, val)
                 ELSE vars)

RECURSIVE VariableStrings(_)
\* Object.entries(vars).map(([k, v]) => `${k}: ${v};`)
VariableStrings(vars) ==
    IF vars = <<>> THEN <<>>
    ELSE <<vars[1].key \o ": " \o vars[1].val \o ";">>
         \o VariableStrings(Tail(vars))

\* a JavaScript value used as a condition: null and '' are falsy
Truthy(value) == value # Null /\ value # ""

\* Px leaving the unit out
Px_WithoutUnit(n) == ToString(n)

\* `${n}px`
Px(n) == ToString(n) \o "px"

(***************************************************************************)
(* applyModificationToSegment                                              *)
(***************************************************************************)

\* InitialAttributes keeping the styler classes only
InitialAttributes_DropsForeignClasses(spanInfo) ==
    [classes |-> IF spanInfo.isNull THEN <<>>
                 ELSE SelectSeq(spanInfo.classList,
                                LAMBDA c : StartsWith(c, CLASS_PREFIX)),
     vars |-> IF ~spanInfo.isNull /\ spanInfo.startTag # ""
              THEN PopulateVars(Split(StyleAttr(spanInfo.startTag), ";"), <<>>)
              ELSE <<>>]

\* lines 140-153: currentClasses and currentCssVariables of the span
InitialAttributes(spanInfo) ==
    [classes |-> IF spanInfo.isNull THEN <<>> ELSE spanInfo.classList,
     vars |-> IF ~spanInfo.isNull /\ spanInfo.startTag # ""
              THEN PopulateVars(Split(StyleAttr(spanInfo.startTag), ";"), <<>>)
              ELSE <<>>]

\* ApplyStyle putting the class of the style first instead of last
ApplyStyle_PrependsClass(st, styleType, value, config) ==
    [classes |->
        IF styleType = "colored-underline" /\ Truthy(value)
        THEN Without(<<TargetClass(styleType)>>
                         \o Without(st.classes, TargetClass(styleType)),
                     UnderlineClass)
        ELSE IF styleType = "underline"
        THEN Without(<<TargetClass(styleType)>>
                         \o Without(st.classes, TargetClass(styleType)),
                     ColoredUnderlineClass)
        ELSE <<TargetClass(styleType)>>
                 \o Without(st.classes, TargetClass(styleType)),
     vars |-> IF styleType = "color" /\ Truthy(value)
              THEN VarSet(st.vars, TextColorVar, value)
              ELSE IF styleType = "highlight" /\ Truthy(value)
              THEN VarSet(st.vars, HighlightColorVar, value)
              ELSE IF styleType = "colored-underline" /\ Truthy(value)
              THEN VarSet(VarSet(st.vars, UnderlineColorVar, value),
                          UnderlineThicknessVar,
                          Px(config.coloredUnderlineThickness))
              ELSE IF styleType = "underline"
              THEN VarDelete(VarDelete(st.vars, UnderlineColorVar),
                             UnderlineThicknessVar)
              ELSE IF styleType = "circled" /\ Truthy(value)
              THEN VarSet(VarSet(st.vars, CircleColorVar, value),
                          CircleThicknessVar, Px(config.circleThickness))
              ELSE st.vars]

\* ApplyStyle writing the class list anew instead of adding to it
ApplyStyle_ReplacesClasses(st, styleType, value, config) ==
    [classes |-> <<TargetClass(styleType)>>,
     vars |-> IF styleType = "color" /\ Truthy(value)
              THEN VarSet(st.vars, TextColorVar, value)
              ELSE IF styleType = "highlight" /\ Truthy(value)
              THEN VarSet(st.vars, HighlightColorVar, value)
              ELSE IF styleType = "colored-underline" /\ Truthy(value)
              THEN VarSet(VarSet(st.vars, UnderlineColorVar, value),
                          UnderlineThicknessVar,
                          Px(config.coloredUnderlineThickness))
              ELSE IF styleType = "underline"
              THEN VarDelete(VarDelete(st.vars, UnderlineColorVar),
                             UnderlineThicknessVar)
              ELSE IF styleType = "circled" /\ Truthy(value)
              THEN VarSet(VarSet(st.vars, CircleColorVar, value),
                          CircleThicknessVar, Px(config.circleThickness))
              ELSE st.vars]

\* lines 158-183: the apply branch
ApplyStyle(st, styleType, value, config) ==
    LET targetClass == TargetClass(styleType)
        pushed == IF Includes(st.classes, targetClass) THEN st.classes
                  ELSE Append(st.classes, targetClass)
    IN  IF styleType = "color" /\ Truthy(value)
        THEN [classes |-> pushed, vars |-> VarSet(st.vars, TextColorVar, value)]
        ELSE IF styleType = "highlight" /\ Truthy(value)
        THEN [classes |-> pushed,
              vars |-> VarSet(st.vars, HighlightColorVar, value)]
        ELSE IF styleType = "colored-underline" /\ Truthy(value)
        THEN [classes |-> Without(pushed, UnderlineClass),
              vars |-> VarSet(VarSet(st.vars, UnderlineColorVar, value),
                              UnderlineThicknessVar,
                              Px(config.coloredUnderlineThickness))]
        ELSE IF styleType = "underline"
        THEN [classes |-> Without(pushed, ColoredUnderlineClass),
              vars |-> VarDelete(VarDelete(st.vars, UnderlineColorVar),
                                 UnderlineThicknessVar)]
        ELSE IF styleType = "circled" /\ Truthy(value)
        THEN [classes |-> pushed,
              vars |-> VarSet(VarSet(st.vars, CircleColorVar, value),
                              CircleThicknessVar,
                              Px(config.circleThickness))]
        ELSE [classes |-> pushed, vars |-> st.vars]

\* RemoveStyle taking the class away and leaving the variables
RemoveStyle_KeepsVariables(st, styleType) ==
    [classes |-> Without(st.classes, TargetClass(styleType)), vars |-> st.vars]

\* lines 185-207: the remove branch
RemoveStyle(st, styleType) ==
    LET filtered == Without(st.classes, TargetClass(styleType))
    IN  [classes |-> filtered,
         vars |->
            IF styleType = "color" THEN VarDelete(st.vars, TextColorVar)
            ELSE IF styleType = "highlight"
            THEN VarDelete(st.vars, HighlightColorVar)
            ELSE IF styleType \in {"colored-underline", "underline"}
            THEN VarDelete(VarDelete(st.vars, UnderlineColorVar),
                           UnderlineThicknessVar)
            ELSE IF styleType = "circled"
            THEN VarDelete(VarDelete(st.vars, CircleColorVar),
                           CircleThicknessVar)
            ELSE st.vars]

\* CleanupUnderlineVars leaving the variables as they are
CleanupUnderlineVars_Skipped(st) == st

\* lines 211-221: underline variables without a colored-underline class
CleanupUnderlineVars(st) ==
    LET hasAnyUnderlineClass ==
            \/ Includes(st.classes, UnderlineClass)
            \/ Includes(st.classes, ColoredUnderlineClass)
        v1 == IF ~hasAnyUnderlineClass
              THEN VarDelete(VarDelete(st.vars, UnderlineColorVar),
                             UnderlineThicknessVar)
              ELSE st.vars
        v2 == IF \/ Includes(st.classes, UnderlineClass)
                 \/ ~Includes(st.classes, ColoredUnderlineClass)
              THEN VarDelete(VarDelete(v1, UnderlineColorVar),
                             UnderlineThicknessVar)
              ELSE v1
    IN  [classes |-> st.classes, vars |-> v2]

\* CleanupMarkers removing the marker classes and leaving the thicknesses
CleanupMarkers_KeepsThickness(st) ==
    LET c1 == IF VarFalsy(st.vars, TextColorVar)
              THEN Without(st.classes, ColoredClass) ELSE st.classes
        c2 == IF VarFalsy(st.vars, HighlightColorVar)
              THEN Without(c1, HighlightedClass) ELSE c1
        c3 == IF VarFalsy(st.vars, UnderlineColorVar)
              THEN Without(c2, ColoredUnderlineClass) ELSE c2
        c4 == IF VarFalsy(st.vars, CircleColorVar)
              THEN Without(c3, CircledClass) ELSE c3
    IN  [classes |-> c4, vars |-> st.vars]

\* CleanupMarkers leaving the marker classes as they are
CleanupMarkers_Skipped(st) == st

\* lines 224-238: marker classes whose variable is gone
CleanupMarkers(st) ==
    LET c1 == IF VarFalsy(st.vars, TextColorVar)
              THEN Without(st.classes, ColoredClass) ELSE st.classes
        c2 == IF VarFalsy(st.vars, HighlightColorVar)
              THEN Without(c1, HighlightedClass) ELSE c1
        c3 == IF VarFalsy(st.vars, UnderlineColorVar)
              THEN Without(c2, ColoredUnderlineClass) ELSE c2
        v3 == IF VarFalsy(st.vars, UnderlineColorVar)
              THEN VarDelete(st.vars, UnderlineThicknessVar) ELSE st.vars
        c4 == IF VarFalsy(v3, CircleColorVar)
              THEN Without(c3, CircledClass) ELSE c3
        v4 == IF VarFalsy(v3, CircleColorVar)
              THEN VarDelete(v3, CircleThicknessVar) ELSE v3
    IN  [classes |-> c4, vars |-> v4]

\* lines 241-263: the span is written again; the result keeps, beside the
\* returned string, the class list and the variables it was written from
ReconstructSpan(text, st) ==
    LET styleAttrValue == Trim(Join(VariableStrings(st.vars), " "))
        uniqueClasses == FilterBoolean(Unique(st.classes))
        hasClasses == Len(uniqueClasses) > 0
        hasStyles == Len(styleAttrValue) > 0
        openingTag ==
            "<span"
            \o (IF hasClasses
                THEN " class=\"" \o Join(uniqueClasses, " ") \o "\"" ELSE "")
            \o (IF hasStyles
                THEN " style=\"" \o styleAttrValue \o "\"" ELSE "")
            \o ">"
    IN  [text |-> text,
         classes |-> uniqueClasses,
         vars |-> st.vars,
         wrapped |-> hasClasses \/ hasStyles,
         result |-> IF hasClasses \/ hasStyles
                    THEN openingTag \o text \o "</span>"
                    ELSE text]

applyModificationToSegment(text, spanInfo, styleType, value, decision, config) ==
    LET st0 == InitialAttributes(spanInfo)
        st1 == IF decision THEN ApplyStyle(st0, styleType, value, config)
               ELSE RemoveStyle(st0, styleType)
    IN  ReconstructSpan(text, CleanupMarkers(CleanupUnderlineVars(st1)))

\* createStyledSpan leaving the value out
createStyledSpan_WithoutValue(text, styleType, value, config) ==
    applyModificationToSegment(text, NullSpan, styleType, Null, TRUE, config)

\* createStyledSpan: a fresh span, existingSpanInfo is not used
createStyledSpan(text, styleType, value, config) ==
    applyModificationToSegment(text, NullSpan, styleType, value, TRUE, config)

(***************************************************************************)
(* toggleStyle: is the style active, apply or remove                      *)
(***************************************************************************)

\* the style types whose value decides the toggle (lines 49 and 80)
ValueStyles == {"colored-underline", "color", "highlight", "circled"}

\* varToCheck (lines 50-53) and varChecks (lines 269-274)
VarOf(styleType) ==
    CASE styleType = "colored-underline" -> UnderlineColorVar
      [] styleType = "color" -> TextColorVar
      [] styleType = "highlight" -> HighlightColorVar
      [] styleType = "circled" -> CircleColorVar
      [] OTHER -> Null

\* ValueCheckStep without the branch for a marker class without its variable
ValueCheckStep_IgnoresMarker(flags, segment, styleType, value) ==
    LET currentVarValue == getCssVariableValue(segment.span, VarOf(styleType))
    IN  IF currentVarValue # Null
        THEN IF ToLowerCase(currentVarValue) = ToLowerCase(value)
             THEN [flags EXCEPT !.isCurrentlyActive = TRUE,
                                !.isSameValueActive = TRUE]
             ELSE [flags EXCEPT !.isCurrentlyActive = TRUE,
                                !.hasDifferentValue = TRUE]
        ELSE flags

\* ValueCheckStep comparing the values with regard to case
ValueCheckStep_CaseSensitive(flags, segment, styleType, value) ==
    LET currentVarValue == getCssVariableValue(segment.span, VarOf(styleType))
    IN  IF currentVarValue # Null
        THEN IF currentVarValue = value
             THEN [flags EXCEPT !.isCurrentlyActive = TRUE,
                                !.isSameValueActive = TRUE]
             ELSE [flags EXCEPT !.isCurrentlyActive = TRUE,
                                !.hasDifferentValue = TRUE]
        ELSE IF ~segment.span.isNull
                /\ Includes(segment.span.classList, TargetClass(styleType))
        THEN [flags EXCEPT !.isCurrentlyActive = TRUE,
                           !.hasDifferentValue = TRUE]
        ELSE flags

\* one pass of the loop of lines 55-71 over one segment
ValueCheckStep(flags, segment, styleType, value) ==
    LET currentVarValue == getCssVariableValue(segment.span, VarOf(styleType))
        markerClass == TargetClass(styleType)
    IN  IF currentVarValue # Null
        THEN IF ToLowerCase(currentVarValue) = ToLowerCase(value)
             THEN [flags EXCEPT !.isCurrentlyActive = TRUE,
                                !.isSameValueActive = TRUE]
             ELSE [flags EXCEPT !.isCurrentlyActive = TRUE,
                                !.hasDifferentValue = TRUE]
        ELSE IF ~segment.span.isNull
                /\ Includes(segment.span.classList, markerClass)
        THEN [flags EXCEPT !.isCurrentlyActive = TRUE,
                           !.hasDifferentValue = TRUE]
        ELSE flags

RECURSIVE ValueCheck(_, _, _, _)
ValueCheck(flags, segs, styleType, value) ==
    IF segs = <<>> THEN flags
    ELSE ValueCheck(ValueCheckStep(flags, segs[1], styleType, value),
                    Tail(segs), styleType, value)

\* SegmentActive taking a run for circled by its class only
SegmentActive_CircledByClassOnly(segment, styleType, value) ==
    /\ ~segment.span.isNull
    /\ LET targetVar == VarOf(styleType)
           isClassActive ==
               Includes(segment.span.classList, TargetClass(styleType))
           varValue == IF targetVar = Null THEN Null
                       ELSE getCssVariableValue(segment.span, targetVar)
           isVarActive ==
               /\ varValue # Null
               /\ (Truthy(value) =>
                      ToLowerCase(varValue) = ToLowerCase(value))
       IN  IF styleType \in {"bold", "italic", "strike", "circled"}
           THEN isClassActive
           ELSE IF styleType = "underline"
           THEN LET isColoredActive ==
                        \/ hasCssVariable(segment.span, UnderlineColorVar)
                        \/ Includes(segment.span.classList,
                                    ColoredUnderlineClass)
                IN  isClassActive /\ ~isColoredActive
           ELSE isVarActive \/ (isClassActive /\ value = Null)

\* SegmentActive counting a colored underline as a plain underline
SegmentActive_IgnoresColored(segment, styleType, value) ==
    /\ ~segment.span.isNull
    /\ LET targetVar == VarOf(styleType)
           isClassActive ==
               Includes(segment.span.classList, TargetClass(styleType))
           varValue == IF targetVar = Null THEN Null
                       ELSE getCssVariableValue(segment.span, targetVar)
           isVarActive ==
               /\ varValue # Null
               /\ (Truthy(value) =>
                      ToLowerCase(varValue) = ToLowerCase(value))
       IN  IF styleType \in {"bold", "italic", "strike", "underline"}
           THEN isClassActive
           ELSE IF styleType = "circled"
           THEN isClassActive \/ (isVarActive /\ value = Null)
           ELSE isVarActive \/ (isClassActive /\ value = Null)

\* the body of the loop of isStyleActiveInSegments for one segment:
\* TRUE when the loop returns true at this segment
SegmentActive(segment, styleType, value) ==
    /\ ~segment.span.isNull
    /\ LET targetVar == VarOf(styleType)
           isClassActive ==
               Includes(segment.span.classList, TargetClass(styleType))
           varValue == IF targetVar = Null THEN Null
                       ELSE getCssVariableValue(segment.span, targetVar)
           isVarActive ==
               /\ varValue # Null
               /\ (Truthy(value) =>
                      ToLowerCase(varValue) = ToLowerCase(value))
       IN  IF styleType \in {"bold", "italic", "strike"} THEN isClassActive
           ELSE IF styleType = "underline"
           THEN LET isColoredActive ==
                        \/ hasCssVariable(segment.span, UnderlineColorVar)
                        \/ Includes(segment.span.classList,
                                    ColoredUnderlineClass)
                IN  isClassActive /\ ~isColoredActive
           ELSE IF styleType = "circled"
           THEN isClassActive \/ (isVarActive /\ value = Null)
           ELSE isVarActive \/ (isClassActive /\ value = Null)

\* isStyleActiveInSegments returning true only when every segment is active
isStyleActiveInSegments_AllRuns(segs, styleType, value) ==
    \A n \in 1..Len(segs) : SegmentActive(segs[n], styleType, value)

isStyleActiveInSegments(segs, styleType, value) ==
    \E n \in 1..Len(segs) : SegmentActive(segs[n], styleType, value)

\* lines 43-89: the decision of toggleStyle
ShouldApply(segs, styleType, value) ==
    IF styleType \in ValueStyles /\ Truthy(value)
    THEN LET flags == ValueCheck([isCurrentlyActive |-> FALSE,
                                  hasDifferentValue |-> FALSE,
                                  isSameValueActive |-> FALSE],
                                 segs, styleType, value)
         IN  ~(flags.isSameValueActive /\ ~flags.hasDifferentValue)
    ELSE ~isStyleActiveInSegments(segs, styleType, value)

\* ModifySegments deciding for every segment on its own
ModifySegments_PerSegmentDecision(segs, styleType, value, decision, config) ==
    [n \in 1..Len(segs) |->
        applyModificationToSegment(segs[n].text, segs[n].span,
                                   styleType, value,
                                   ShouldApply(<<segs[n]>>, styleType, value),
                                   config)]

\* lines 93-97: every segment rewritten with the one decision
ModifySegments(segs, styleType, value, decision, config) ==
    [n \in 1..Len(segs) |->
        applyModificationToSegment(segs[n].text, segs[n].span,
                                   styleType, value, decision, config)]

RECURSIVE Concat(_)
\* modifiedContent += ... over the list
Concat(parts) ==
    IF parts = <<>> THEN "" ELSE parts[1] \o Concat(Tail(parts))

(***************************************************************************)
(* The inputs: selections, requests, settings                              *)
(***************************************************************************)

\* the longest selection considered, in units (a text, a wrapped text)
MaxRuns == 2

V1 == "#ff0000"
V1Upper == "#FF0000"
V2 == "#00ff00"

\* a start tag written the way ReconstructSpan writes it
MkTag(classes, decls) ==
    "<span"
    \o (IF classes = <<>> THEN ""
        ELSE " class=\"" \o Join(classes, " ") \o "\"")
    \o (IF decls = <<>> THEN ""
        ELSE " style=\"" \o Join([n \in 1..Len(decls) |-> decls[n] \o ";"], " ")
             \o "\"")
    \o ">"

Decl(key, val) == key \o ": " \o val

Wrap(classes, decls, text) == MkTag(classes, decls) \o text \o "</span>"

\* wrapped texts the way the plugin leaves them
StyledUnits ==
    { Wrap(<<BoldClass>>, <<>>, "B"),
      Wrap(<<UnderlineClass>>, <<>>, "U"),
      Wrap(<<ColoredUnderlineClass>>,
           <<Decl(UnderlineColorVar, V1), Decl(UnderlineThicknessVar, "3px")>>,
           "C"),
      Wrap(<<ColoredClass>>, <<Decl(TextColorVar, V2)>>, "G"),
      Wrap(<<CircledClass>>,
           <<Decl(CircleColorVar, V1), Decl(CircleThicknessVar, "2px")>>, "O") }

\* wrapped texts written by hand or by other tools: a variable without its
\* marker class, a marker class without its variable, foreign attributes
ForeignUnits ==
    { Wrap(<<>>, <<Decl(TextColorVar, V1)>>, "X"),
      Wrap(<<ColoredClass>>, <<>>, "M"),
      Wrap(<<ColoredUnderlineClass>>, <<>>, "N"),
      "<span></span>" }

\* the units a selection of several runs is made of
CoreUnits == {"A"} \cup StyledUnits \cup ForeignUnits

\* selections of one unit: further shapes of one wrapped text
SingleUnits ==
    CoreUnits \cup
    { "",
      Wrap(<<ItalicClass, BoldClass>>, <<>>, "I"),
      Wrap(<<StrikeClass>>, <<>>, "S"),
      Wrap(<<>>, <<Decl(UnderlineColorVar, V1),
                   Decl(UnderlineThicknessVar, "3px")>>, "c"),
      Wrap(<<UnderlineClass, ColoredUnderlineClass>>,
           <<Decl(UnderlineColorVar, V1), Decl(UnderlineThicknessVar, "3px")>>,
           "D"),
      Wrap(<<ColoredClass>>, <<Decl(TextColorVar, V1Upper)>>, "R"),
      Wrap(<<>>, <<Decl(TextColorVar, V1Upper)>>, "x"),
      Wrap(<<HighlightedClass>>, <<Decl(HighlightColorVar, V1)>>, "H"),
      Wrap(<<>>, <<Decl(HighlightColorVar, V2)>>, "h"),
      Wrap(<<HighlightedClass>>, <<>>, "m"),
      Wrap(<<CircledClass>>, <<>>, "o"),
      Wrap(<<>>, <<Decl(CircleColorVar, V2), Decl(CircleThicknessVar, "2px")>>,
           "q"),
      Wrap(<<"foo">>, <<Decl("color", "red")>>, "F"),
      Wrap(<<"foo", BoldClass, ColoredClass>>,
           <<Decl("font-size", "12px"), Decl(TextColorVar, V1),
             Decl("--styler-foo", "1")>>, "f"),
      Wrap(<<UnderlineClass, ColoredClass>>, <<Decl(TextColorVar, V1)>>, "W"),
      Wrap(<<ColoredClass>>, <<Decl(TextColorVar, "")>>, "e"),
      "<span style=\"--styler-text-color:;\">k</span>",
      "<span",
      "a < b >",
      "<span>",
      "<sp<span>an>",
      "x</SPAN>y",
      Wrap(<<CircledClass>>, <<Decl(CircleThicknessVar, "2px")>>, "t"),
      Wrap(<<BoldClass>>, <<>>,
           "x" \o Wrap(<<ItalicClass>>, <<>>, "y") \o "z") }

RECURSIVE Sequences(_, _)
\* the concatenations of n units
Sequences(units, n) ==
    IF n = 0 THEN {""}
    ELSE {u \o rest : u \in units, rest \in Sequences(units, n - 1)}

Selections ==
    SingleUnits \cup UNION {Sequences(CoreUnits, n) : n \in 2..MaxRuns}

\* the requests the commands and menus of main.ts issue
Requests ==
    {[styleType |-> t, value |-> Null] : t \in StyleType}
    \cup {[styleType |-> t, value |-> v] : t \in ValueStyles, v \in {V1, V2}}

MAX_COLOR_SLOTS == 20
DEFAULT_COLOR_SLOTS == 5
DEFAULT_TEXT_COLOR == "#000000"
DEFAULT_HIGHLIGHT_COLOR == "#ffff00"

\* Array(n).fill(color)
Filled(n, color) == [i \in 1..n |-> color]

\* DEFAULT_SETTINGS with the two thicknesses the stored data holds; the
\* favorite colors are left out
StoredSettings(coloredUnderlineThickness, circleThickness) ==
    [textColorSlots |-> DEFAULT_COLOR_SLOTS,
     textColors |-> Filled(DEFAULT_COLOR_SLOTS, DEFAULT_TEXT_COLOR),
     selectedTextColorIndex |-> 0,
     highlightColorSlots |-> DEFAULT_COLOR_SLOTS,
     highlightColors |-> Filled(DEFAULT_COLOR_SLOTS, DEFAULT_HIGHLIGHT_COLOR),
     selectedHighlightColorIndex |-> 0,
     coloredUnderlineThickness |-> coloredUnderlineThickness,
     circleThickness |-> circleThickness]

\* plugin.settings: the defaults with two pairs of thicknesses
SettingsPool == {StoredSettings(3, 2), StoredSettings(2, 1)}

(***************************************************************************)
(* The editor and the two public operations                                *)
(***************************************************************************)

VARIABLES
    doc,          \* the text of the selected range of the editor
    settings,     \* plugin.settings
    op,           \* the operation carried out on the selection, if any
    input,        \* the selected text the operation read
    segments,     \* parseSelection(input) inside the operation
    shouldApply,  \* the decision of toggleStyle
    outRuns,      \* the rewritten segments, in order
    cursor,       \* the offset editor.setCursor was given, -1 if not called
    notice,       \* the Notice shown, "" if none
    remaining,    \* the requests the user still issues on this selection
    statusBar     \* the color cells of the two palettes of the status bar

vars ==
    <<doc, settings, op, input, segments, shouldApply, outRuns, cursor, notice,
      remaining, statusBar>>

\* StylerStatusBar.createColorCells for both palettes: one cell per slot of
\* the settings at the time of the call
createColorCells(config) ==
    [textColorCells |-> config.textColorSlots,
     highlightColorCells |-> config.highlightColorSlots]

NoOp == [name |-> "none", styleType |-> "", value |-> Null]

SelectionRequiredNotice == "Text Styler: Selection required for this style."

Init ==
    /\ doc \in Selections
    /\ settings \in SettingsPool
    /\ op = NoOp
    /\ input = ""
    /\ segments = <<>>
    /\ shouldApply = FALSE
    /\ outRuns = <<>>
    /\ cursor = -1
    /\ notice = ""
    /\ remaining = 1
    /\ statusBar = createColorCells(settings)

\* line 26: an empty selection and a color to insert
EmptyInsertion(selectedText, styleType, value) ==
    Len(selectedText) = 0 /\ styleType \in {"color", "highlight"} /\ Truthy(value)

\* SelectionRequired asking for a selection whatever the style
SelectionRequired_AnyStyle(selectedText, styleType) ==
    Len(selectedText) = 0

\* line 34: an empty selection and a style that requires one
SelectionRequired(selectedText, styleType) ==
    Len(selectedText) = 0 /\ styleType # "color" /\ styleType # "highlight"

\* StyleManager.toggleStyle on the selected text
ToggleStyle(styleType, value) ==
    /\ remaining > 0
    /\ remaining' = remaining - 1
    /\ op' = [name |-> "toggleStyle", styleType |-> styleType, value |-> value]
    /\ input' = doc
    /\ UNCHANGED <<settings, statusBar>>
    /\ IF EmptyInsertion(doc, styleType, value)
       THEN \E styledEmptySpan \in
                   {createStyledSpan("", styleType, value, settings)} :
               /\ doc' = styledEmptySpan.result
               /\ cursor' = (IndexFrom(styledEmptySpan.result, ">", 1) - 1) + 1
               /\ notice' = ""
               /\ segments' = <<>>
               /\ shouldApply' = TRUE
               /\ outRuns' = <<styledEmptySpan>>
       ELSE IF SelectionRequired(doc, styleType)
       THEN /\ notice' = SelectionRequiredNotice
            /\ UNCHANGED <<doc, cursor, segments, shouldApply, outRuns>>
       ELSE \E segs \in {parseSelection(doc)} :
            \E decision \in {ShouldApply(segs, styleType, value)} :
            \E runs \in {ModifySegments(segs, styleType, value, decision,
                                        settings)} :
               /\ segments' = segs
               /\ shouldApply' = decision
               /\ outRuns' = runs
               /\ doc' = Concat([n \in 1..Len(runs) |-> runs[n].result])
               /\ notice' = ""
               /\ UNCHANGED cursor

\* StyleManager.removeAllStyling on the selected text
RemoveAllStyling ==
    /\ remaining > 0
    /\ remaining' = remaining - 1
    /\ op' = [name |-> "removeAllStyling", styleType |-> "", value |-> Null]
    /\ input' = doc
    /\ \E segs \in {parseSelection(doc)} :
          /\ segments' = segs
          /\ doc' = Concat([n \in 1..Len(segs) |-> segs[n].text])
    /\ UNCHANGED <<settings, shouldApply, outRuns, cursor, notice, statusBar>>

\* the text toggleStyle leaves in place of the selected text
ToggledText(selectedText, styleType, value, config) ==
    IF EmptyInsertion(selectedText, styleType, value)
    THEN createStyledSpan("", styleType, value, config).result
    ELSE IF SelectionRequired(selectedText, styleType) THEN selectedText
    ELSE LET segs == parseSelection(selectedText)
             runs == ModifySegments(segs, styleType, value,
                                    ShouldApply(segs, styleType, value), config)
         IN  Concat([n \in 1..Len(runs) |-> runs[n].result])

\* handleEditorMenu, "Styler: Remove Colors/Highlight": three toggleStyle
\* calls with a null value, each on the selected text the call before it
\* left; segments is the parse of the first call, shouldApply and outRuns
\* are those of the last call
RemoveColorsHighlight ==
    /\ remaining > 0
    /\ remaining' = remaining - 1
    /\ op' = [name |-> "removeColorsHighlight", styleType |-> "",
              value |-> Null]
    /\ input' = doc
    /\ segments' = parseSelection(doc)
    /\ \E afterColor \in {ToggledText(doc, "color", Null, settings)} :
       \E afterHighlight \in
               {ToggledText(afterColor, "highlight", Null, settings)} :
          IF SelectionRequired(afterHighlight, "colored-underline")
          THEN /\ notice' = SelectionRequiredNotice
               /\ doc' = afterHighlight
               /\ UNCHANGED <<shouldApply, outRuns>>
          ELSE \E segs \in {parseSelection(afterHighlight)} :
               \E decision \in {ShouldApply(segs, "colored-underline", Null)} :
               \E runs \in {ModifySegments(segs, "colored-underline", Null,
                                           decision, settings)} :
                  /\ shouldApply' = decision
                  /\ outRuns' = runs
                  /\ doc' = Concat([n \in 1..Len(runs) |-> runs[n].result])
                  /\ notice' = ""
    /\ UNCHANGED <<settings, cursor, statusBar>>

Next ==
    \/ \E r \in Requests : ToggleStyle(r.styleType, r.value)
    \/ RemoveAllStyling
    \/ RemoveColorsHighlight

Spec == Init /\ [][Next]_vars

(***************************************************************************)
(* Several requests in a row on the same selection: every request reads    *)
(* the text the request before it wrote                                    *)
(***************************************************************************)

\* the requests issued in a row
MaxRequests == 2

\* the selections the requests start from
SeqSelections ==
    { "A",
      "a b",
      "<span",
      "<sp<span>an>x",
      Wrap(<<HighlightedClass>>, <<Decl(HighlightColorVar, V1)>>, "P")
          \o Wrap(<<ColoredClass>>, <<Decl(TextColorVar, V1)>>, "Q") }

InitSeq ==
    /\ doc \in SeqSelections
    /\ settings = StoredSettings(3, 2)
    /\ op = NoOp
    /\ input = ""
    /\ segments = <<>>
    /\ shouldApply = FALSE
    /\ outRuns = <<>>
    /\ cursor = -1
    /\ notice = ""
    /\ remaining = MaxRequests
    /\ statusBar = createColorCells(settings)

SpecSeq == InitSeq /\ [][Next]_vars

(***************************************************************************)
(* The settings tab: the two slot-count fields                             *)
(***************************************************************************)

Digits == "0123456789"

IsDigit(c) == c # "" /\ IndexFrom(Digits, c, 1) # 0

DigitValue(c) == IndexFrom(Digits, c, 1) - 1

RECURSIVE DigitsValue(_, _)
\* the number the leading decimal digits of s spell, continuing from acc
DigitsValue(s, acc) ==
    IF s # "" /\ IsDigit(Head(s))
    THEN DigitsValue(Tail(s), 10 * acc + DigitValue(Head(s)))
    ELSE acc

\* parseInt(value) without a radix, for strings without a 0x prefix:
\* leading white space is skipped, then a sign, then decimal digits up to
\* the first other character; NaN without a digit
parseInt(value) ==
    LET t == TrimStart(value)
        negative == t # "" /\ Head(t) = "-"
        u == IF t # "" /\ Head(t) \in {"-", "+"} THEN Tail(t) ELSE t
    IN  IF u = "" \/ ~IsDigit(Head(u)) THEN [isNaN |-> TRUE, num |-> 0]
        ELSE [isNaN |-> FALSE,
              num |-> IF negative THEN 0 - DigitsValue(u, 0)
                      ELSE DigitsValue(u, 0)]

\* the clamp of the onChange handlers letting zero through
ClampSlots_FromZero(value) ==
    LET parsed == parseInt(value)
        low == IF parsed.isNaN \/ parsed.num < 0 THEN 1 ELSE parsed.num
    IN  IF low > MAX_COLOR_SLOTS THEN MAX_COLOR_SLOTS ELSE low

\* settingsTab.ts, the onChange handlers: num from the typed value
ClampSlots(value) ==
    LET parsed == parseInt(value)
        low == IF parsed.isNaN \/ parsed.num < 1 THEN 1 ELSE parsed.num
    IN  IF low > MAX_COLOR_SLOTS THEN MAX_COLOR_SLOTS ELSE low

Min(a, b) == IF a < b THEN a ELSE b

Max(a, b) == IF a > b THEN a ELSE b

\* the new array of ensureColorArraysMatchSlots: the old colors as far as
\* they go, the default color after them
Resized(colors, slots, defaultColor) ==
    IF Len(colors) # slots
    THEN [i \in 1..slots |->
            IF i <= Min(Len(colors), slots) THEN colors[i] ELSE defaultColor]
    ELSE colors

\* TextStyler.ensureColorArraysMatchSlots; the thicknesses are numbers and
\* stay as they are
ensureColorArraysMatchSlots(config) ==
    [config EXCEPT
        !.textColors =
            Resized(config.textColors, config.textColorSlots,
                    DEFAULT_TEXT_COLOR),
        !.highlightColors =
            Resized(config.highlightColors, config.highlightColorSlots,
                    DEFAULT_HIGHLIGHT_COLOR),
        !.selectedTextColorIndex =
            Max(0, Min(config.selectedTextColorIndex,
                       config.textColorSlots - 1)),
        !.selectedHighlightColorIndex =
            Max(0, Min(config.selectedHighlightColorIndex,
                       config.highlightColorSlots - 1))]

\* saveSettings(true)
saveSettings(config) == ensureColorArraysMatchSlots(config)

\* what the user types into a slot-count field
TypedValues ==
    {"", "abc", "0", "-3", "1", "2", "3", "3.5", " 4", "6", "7", "8", "9",
     "10", "12abc", "15", "+19", "20", "21", "250", "1e3"}

\* the onChange handler of "Number of Text Color Slots"; the status bar
\* keeps its cells until the plugin is loaded again
SetTextColorSlots(value) ==
    /\ settings' = saveSettings([settings EXCEPT
                                    !.textColorSlots = ClampSlots(value)])
    /\ op' = [name |-> "setColorSlots", styleType |-> "text", value |-> Null]
    /\ UNCHANGED <<doc, input, segments, shouldApply, outRuns, cursor,
                   notice, remaining, statusBar>>

\* the onChange handler of "Number of Highlight Color Slots"
SetHighlightColorSlots(value) ==
    /\ settings' = saveSettings([settings EXCEPT
                                    !.highlightColorSlots = ClampSlots(value)])
    /\ op' = [name |-> "setColorSlots", styleType |-> "highlight",
              value |-> Null]
    /\ UNCHANGED <<doc, input, segments, shouldApply, outRuns, cursor,
                   notice, remaining, statusBar>>

PaletteTypes == {"text", "highlight"}

Directions == {"forward", "backward"}

\* the indices of the cells the status bar shows for a palette
CellIndices(type) ==
    IF type = "text" THEN 0..(statusBar.textColorCells - 1)
    ELSE 0..(statusBar.highlightColorCells - 1)

\* StylerStatusBar.handleCellClick: a click on the cell created with index;
\* saveSettings() is called without resizeArrays
HandleCellClick(index, type) ==
    /\ settings' = IF type = "text"
                   THEN [settings EXCEPT !.selectedTextColorIndex = index]
                   ELSE [settings EXCEPT !.selectedHighlightColorIndex = index]
    /\ op' = [name |-> "handleCellClick", styleType |-> type, value |-> Null]
    /\ UNCHANGED <<doc, input, segments, shouldApply, outRuns, cursor,
                   notice, remaining, statusBar>>

\* cycleColorSlot stepping forward whatever the direction
cycleColorSlot_AlwaysForward(config, type, direction) ==
    IF type = "text"
    THEN IF config.textColorSlots <= 0 THEN config
         ELSE [config EXCEPT !.selectedTextColorIndex =
                  (config.selectedTextColorIndex + 1) % config.textColorSlots]
    ELSE IF config.highlightColorSlots <= 0 THEN config
         ELSE [config EXCEPT !.selectedHighlightColorIndex =
                  (config.selectedHighlightColorIndex + 1)
                      % config.highlightColorSlots]

\* TextStyler.cycleColorSlot: the settings it leaves
cycleColorSlot(config, type, direction) ==
    IF type = "text"
    THEN LET currentIdx == config.selectedTextColorIndex
             slotCount == config.textColorSlots
         IN  IF slotCount <= 0 THEN config
             ELSE [config EXCEPT !.selectedTextColorIndex =
                      IF direction = "forward"
                      THEN (currentIdx + 1) % slotCount
                      ELSE (currentIdx - 1 + slotCount) % slotCount]
    ELSE LET currentIdx == config.selectedHighlightColorIndex
             slotCount == config.highlightColorSlots
         IN  IF slotCount <= 0 THEN config
             ELSE [config EXCEPT !.selectedHighlightColorIndex =
                      IF direction = "forward"
                      THEN (currentIdx + 1) % slotCount
                      ELSE (currentIdx - 1 + slotCount) % slotCount]

\* one of the four cycle commands
CycleColorSlot(type, direction) ==
    /\ settings' = cycleColorSlot(settings, type, direction)
    /\ op' = [name |-> "cycleColorSlot", styleType |-> type,
              value |-> direction]
    /\ UNCHANGED <<doc, input, segments, shouldApply, outRuns, cursor,
                   notice, remaining, statusBar>>

\* the settings after loadSettings without stored data, no selection
InitSettings ==
    /\ settings = ensureColorArraysMatchSlots(StoredSettings(3, 2))
    /\ doc = ""
    /\ op = NoOp
    /\ input = ""
    /\ segments = <<>>
    /\ shouldApply = FALSE
    /\ outRuns = <<>>
    /\ cursor = -1
    /\ notice = ""
    /\ remaining = 0
    /\ statusBar = createColorCells(settings)

NextSettings ==
    \/ \E value \in TypedValues : SetTextColorSlots(value)
    \/ \E value \in TypedValues : SetHighlightColorSlots(value)
    \/ \E type \in PaletteTypes : \E index \in CellIndices(type) :
          HandleCellClick(index, type)
    \/ \E type \in PaletteTypes : \E direction \in Directions :
          CycleColorSlot(type, direction)

SpecSettings == InitSettings /\ [][NextSettings]_vars

(***************************************************************************)
(* Reading the recorded operation                                          *)
(***************************************************************************)

\* a toggleStyle request was carried out on a selection that is not empty
Toggled == op.name = "toggleStyle" /\ input # ""

RunIds == 1..Len(segments)

\* the classes and the styler variables run n had before the request
SegClasses(n) ==
    IF segments[n].span.isNull THEN <<>> ELSE segments[n].span.classList

SegVars(n) == InitialAttributes(segments[n].span).vars

\* the value slot of a kind on run n before the request, Null when absent
SegSlot(n, styleType) == getCssVariableValue(segments[n].span, VarOf(styleType))

SameColor(a, b) == ToLowerCase(a) = ToLowerCase(b)

\* the classes and the variables run n is written with
OutClasses(n) == outRuns[n].classes

OutVars(n) == outRuns[n].vars

\* isColoredActive of isStyleActiveInSegments on run n before the request
SegColoredUnderline(n) ==
    \/ hasCssVariable(segments[n].span, UnderlineColorVar)
    \/ Includes(SegClasses(n), ColoredUnderlineClass)

NoUnderlineVars(n) ==
    /\ ~VarHas(OutVars(n), UnderlineColorVar)
    /\ ~VarHas(OutVars(n), UnderlineThicknessVar)

\* the styler classes and the styler declaration keys the code knows
RecognizedClasses == {TargetClass(t) : t \in StyleType}

RecognizedVars ==
    {TextColorVar, HighlightColorVar, UnderlineColorVar, UnderlineThicknessVar,
     CircleColorVar, CircleThicknessVar}

\* the declarations of the style attribute of a tag, each trimmed
Declarations(tag) ==
    LET parts == Split(StyleAttr(tag), ";")
    IN  {Trim(parts[i]) : i \in 1..Len(parts)} \ {""}

DeclKey(d) == Trim(Split(d, ":")[1])

\* the class tokens and declarations of run n the code does not know
ForeignClasses(n) ==
    {SegClasses(n)[i] : i \in 1..Len(SegClasses(n))} \ RecognizedClasses

ForeignDecls(n) ==
    IF segments[n].span.isNull THEN {}
    ELSE {d \in Declarations(segments[n].span.startTag) :
             DeclKey(d) \notin RecognizedVars}

\* the start tag run n is written with, "" when it is written bare
OutTag(n) ==
    IF outRuns[n].wrapped
    THEN SubSeq(outRuns[n].result, 1, IndexFrom(outRuns[n].result, ">", 1))
    ELSE ""

\* the styles a request of kind K is about: the two underlines are one
Related(styleType) ==
    IF styleType \in {"underline", "colored-underline"}
    THEN {"underline", "colored-underline"}
    ELSE {styleType}

\* the declarations that carry the value of a style
VarsOf(styleType) ==
    CASE styleType = "color" -> {TextColorVar}
      [] styleType = "highlight" -> {HighlightColorVar}
      [] styleType = "colored-underline" ->
            {UnderlineColorVar, UnderlineThicknessVar}
      [] styleType = "circled" -> {CircleColorVar, CircleThicknessVar}
      [] OTHER -> {}

\* a run as the plugin itself writes runs: every marker class with its
\* value, underline declarations only with the colored-underline class and
\* without the plain underline class, a thickness only with its color
ConsistentAttrs(classes, variables) ==
    /\ \A k \in ValueStyles :
          Includes(classes, TargetClass(k)) =>
              Truthy(VarGet(variables, VarOf(k)))
    /\ (VarHas(variables, UnderlineColorVar)
            \/ VarHas(variables, UnderlineThicknessVar)) =>
          /\ Includes(classes, ColoredUnderlineClass)
          /\ ~Includes(classes, UnderlineClass)
    /\ VarHas(variables, CircleThicknessVar) =>
          Truthy(VarGet(variables, CircleColorVar))

Consistent(n) == ConsistentAttrs(SegClasses(n), SegVars(n))

\* the styles other than the requested one are, on one run, never added
\* and never changed
OthersNotAdded(styleType, inClasses, inVars, outClasses, outVars) ==
    \A s \in StyleType \ Related(styleType) :
        /\ Includes(outClasses, TargetClass(s))
              => Includes(inClasses, TargetClass(s))
        /\ \A v \in VarsOf(s) :
              VarHas(outVars, v) => VarGet(inVars, v) = VarGet(outVars, v)

\* the styles other than the requested one are, on one run, as they were
OthersUnchanged(styleType, inClasses, inVars, outClasses, outVars) ==
    \A s \in StyleType \ Related(styleType) :
        /\ Includes(inClasses, TargetClass(s))
              <=> Includes(outClasses, TargetClass(s))
        /\ \A v \in VarsOf(s) : VarGet(inVars, v) = VarGet(outVars, v)

\* the frame of a request on one run, read off its attributes before and after
FrameOnRun(styleType, inClasses, inVars, outClasses, outVars) ==
    /\ OthersNotAdded(styleType, inClasses, inVars, outClasses, outVars)
    /\ ConsistentAttrs(inClasses, inVars) =>
          OthersUnchanged(styleType, inClasses, inVars, outClasses, outVars)

\* s contains a span start tag or a span end tag: "<span" or "</span" in
\* any case, followed somewhere by '>'
ContainsSpanTag(s) ==
    \E i \in 1..Len(s) :
        \/ /\ ToLowerCase(Slice(s, i, i + 4)) = "<span"
           /\ \E j \in (i + 5)..Len(s) : CharAt(s, j) = ">"
        \/ /\ ToLowerCase(Slice(s, i, i + 5)) = "</span"
           /\ \E j \in (i + 6)..Len(s) : CharAt(s, j) = ">"

\* a request has just been carried out after another one
Requested == remaining' = remaining - 1 /\ op.name # "none"

\* the classes and the declarations run n is written with, as sets
ClassSet(n) == {OutClasses(n)[i] : i \in 1..Len(OutClasses(n))}

DeclSet(n) == {OutVars(n)[i] : i \in 1..Len(OutVars(n))}

\* the place of the first x in a list
FirstIndex(list, x) ==
    CHOOSE i \in 1..Len(list) :
        list[i] = x /\ \A k \in 1..(i - 1) : list[k] # x

\* the order of the list out follows the list in: what was in the list in
\* keeps its order, and what is new comes after it
FollowsOrder(in, out) ==
    \A i \in 1..Len(out) : \A j \in (i + 1)..Len(out) :
        IF Includes(in, out[i])
        THEN Includes(in, out[j]) =>
                 FirstIndex(in, out[i]) < FirstIndex(in, out[j])
        ELSE ~Includes(in, out[j])

Keys(variables) == [i \in 1..Len(variables) |-> variables[i].key]

BooleanStyles == {"bold", "italic", "strike"}

(***************************************************************************)
(* C1                                                                      *)
(***************************************************************************)

\* C1 as stated: for bold, italic and strike over a selection that is not
\* empty, the decision is remove only when every run carries the class, and
\* when some run lacks it the decision is apply and every output run
\* carries the class
C1_AllRunsDecideRemove ==
    (Toggled /\ op.styleType \in BooleanStyles) =>
        /\ ~shouldApply =>
              \A n \in RunIds : Includes(SegClasses(n), TargetClass(op.styleType))
        /\ (\E n \in RunIds : ~Includes(SegClasses(n), TargetClass(op.styleType)))
              => /\ shouldApply
                 /\ \A n \in RunIds :
                       Includes(outRuns[n].classes, TargetClass(op.styleType))

\* C1 amended: for bold, italic and strike over a selection that is not
\* empty, the decision is remove exactly when at least one run carries the
\* class; on remove no output run carries the class, on apply every output
\* run carries it
C1_AnyRunDecidesRemove ==
    (Toggled /\ op.styleType \in BooleanStyles) =>
        /\ ~shouldApply <=>
              \E n \in RunIds : Includes(SegClasses(n), TargetClass(op.styleType))
        /\ \A n \in RunIds :
              shouldApply <=>
                 Includes(outRuns[n].classes, TargetClass(op.styleType))

\* bold toggled over two runs of which only one was bold: both end unstyled
C1_Witness ==
    /\ Toggled
    /\ op.styleType = "bold"
    /\ \E n \in RunIds : Includes(SegClasses(n), BoldClass)
    /\ \E n \in RunIds : ~Includes(SegClasses(n), BoldClass)
    /\ ~shouldApply
    /\ \A n \in RunIds : ~outRuns[n].wrapped

(***************************************************************************)
(* C2                                                                      *)
(***************************************************************************)

\* C2 as stated: for a value-bearing kind requested with a value V, the
\* decision is remove if and only if the slot of every run equals V without
\* regard to case, and on apply every output run carries the slot with V
C2_EveryRunSameValue ==
    (Toggled /\ op.styleType \in ValueStyles /\ Truthy(op.value)) =>
        /\ ~shouldApply <=>
              \A n \in RunIds :
                 /\ SegSlot(n, op.styleType) # Null
                 /\ SameColor(SegSlot(n, op.styleType), op.value)
        /\ shouldApply =>
              \A n \in RunIds :
                 VarGet(outRuns[n].vars, VarOf(op.styleType)) = op.value

\* C2 amended: the decision is remove if and only if the slot of at least
\* one run equals V without regard to case, no run holds another value and
\* no run carries the marker class without the slot; runs without the slot
\* and without the marker do not count. On apply every output run carries
\* the slot with V, on remove no output run carries the slot
C2_SomeRunSameValueNoneDifferent ==
    (Toggled /\ op.styleType \in ValueStyles /\ Truthy(op.value)) =>
        /\ ~shouldApply <=>
              /\ \E n \in RunIds :
                    /\ SegSlot(n, op.styleType) # Null
                    /\ SameColor(SegSlot(n, op.styleType), op.value)
              /\ \A n \in RunIds :
                    IF SegSlot(n, op.styleType) # Null
                    THEN SameColor(SegSlot(n, op.styleType), op.value)
                    ELSE ~Includes(SegClasses(n), TargetClass(op.styleType))
        /\ \A n \in RunIds :
              IF shouldApply
              THEN VarGet(outRuns[n].vars, VarOf(op.styleType)) = op.value
              ELSE ~VarHas(outRuns[n].vars, VarOf(op.styleType))

\* a text color requested over a run of that color and a run without any:
\* the color is removed
C2_Witness ==
    /\ Toggled
    /\ op.styleType = "color"
    /\ op.value = V1
    /\ \E n \in RunIds : SegSlot(n, "color") = V1
    /\ \E n \in RunIds :
          SegSlot(n, "color") = Null /\ ~Includes(SegClasses(n), ColoredClass)
    /\ ~shouldApply
    /\ \A n \in RunIds : ~VarHas(outRuns[n].vars, TextColorVar)

(***************************************************************************)
(* C3                                                                      *)
(***************************************************************************)

\* the selection is one wrapped run whose only styling is the text color v
OnlyTextColor(v, text) ==
    /\ input = Wrap(<<>>, <<Decl(TextColorVar, v)>>, text)
    /\ Len(segments) = 1
    /\ segments[1].text = text

\* C3: on a single wrapped run styled by the text-color declaration alone, a
\* text-color request with the same color (compared without regard to case)
\* returns the bare text, and one with another color returns the text
\* wrapped with the new color in place of the old one
C3_SameColorRemovesOtherReplaces ==
    \A v \in {V1, V1Upper, V2} : \A text \in {"X", "x"} :
        (/\ op.name = "toggleStyle"
         /\ op.styleType = "color"
         /\ Truthy(op.value)
         /\ OnlyTextColor(v, text)) =>
            IF SameColor(v, op.value)
            THEN doc = text
            ELSE /\ doc = Wrap(<<ColoredClass>>,
                               <<Decl(TextColorVar, op.value)>>, text)
                 /\ VarGet(outRuns[1].vars, TextColorVar) = op.value

\* the color V1 replaced by V2, and the color written in capitals removed
C3_Witness ==
    /\ op.name = "toggleStyle"
    /\ op.styleType = "color"
    /\ \/ /\ op.value = V2
          /\ OnlyTextColor(V1, "X")
          /\ doc = Wrap(<<ColoredClass>>, <<Decl(TextColorVar, V2)>>, "X")
       \/ /\ op.value = V1
          /\ OnlyTextColor(V1Upper, "x")
          /\ doc = "x"

(***************************************************************************)
(* C4                                                                      *)
(***************************************************************************)

\* C4 as stated: when some run carries colored-underline (marker class or
\* underline-color declaration), a plain underline request is decided as
\* apply and that run ends with the plain underline class, whatever the
\* other runs carry
C4_ColoredRunAlwaysApply ==
    (Toggled /\ op.styleType = "underline") =>
        \A n \in RunIds :
            (\/ Includes(SegClasses(n), ColoredUnderlineClass)
             \/ SegSlot(n, "colored-underline") # Null) =>
                /\ shouldApply
                /\ Includes(OutClasses(n), UnderlineClass)

\* C4 amended: a plain underline request is decided as remove exactly when
\* some run carries the plain underline class and neither the
\* colored-underline class nor an underline-color declaration; a colored run
\* never counts as underlined. On apply every run ends with the plain
\* underline class and without the colored-underline class and
\* declarations; on remove every run, the colored ones included, ends with
\* no underline class and no underline declaration
C4_ColoredRunNeverCountsAsUnderlined ==
    (Toggled /\ op.styleType = "underline") =>
        /\ ~shouldApply <=>
              \E n \in RunIds :
                 /\ Includes(SegClasses(n), UnderlineClass)
                 /\ ~SegColoredUnderline(n)
        /\ \A n \in RunIds :
              /\ shouldApply <=> Includes(OutClasses(n), UnderlineClass)
              /\ ~Includes(OutClasses(n), ColoredUnderlineClass)
              /\ NoUnderlineVars(n)

\* plain underline requested over a colored-underline run and a plainly
\* underlined run: the decision is remove and no run keeps any underline
C4_Witness ==
    /\ Toggled
    /\ op.styleType = "underline"
    /\ \E n \in RunIds :
          /\ Includes(SegClasses(n), ColoredUnderlineClass)
          /\ SegSlot(n, "colored-underline") = V1
          /\ ~outRuns[n].wrapped
    /\ \E n \in RunIds :
          /\ Includes(SegClasses(n), UnderlineClass)
          /\ ~SegColoredUnderline(n)
    /\ ~shouldApply

(***************************************************************************)
(* C5                                                                      *)
(***************************************************************************)

\* C5: after a toggleStyle request no output run carries both the plain
\* underline class and the colored-underline class; applying
\* colored-underline with a value leaves the run with the colored-underline
\* class and that color and without the plain underline class; applying
\* plain underline leaves it with the plain underline class and without the
\* colored-underline class and its color and thickness declarations
C5_UnderlineKindsExclusive ==
    op.name = "toggleStyle" =>
        \A n \in 1..Len(outRuns) :
            /\ ~(/\ Includes(OutClasses(n), UnderlineClass)
                 /\ Includes(OutClasses(n), ColoredUnderlineClass))
            /\ (shouldApply /\ op.styleType = "colored-underline"
                    /\ Truthy(op.value)) =>
                  /\ ~Includes(OutClasses(n), UnderlineClass)
                  /\ Includes(OutClasses(n), ColoredUnderlineClass)
                  /\ VarGet(OutVars(n), UnderlineColorVar) = op.value
            /\ (shouldApply /\ op.styleType = "underline") =>
                  /\ Includes(OutClasses(n), UnderlineClass)
                  /\ ~Includes(OutClasses(n), ColoredUnderlineClass)
                  /\ NoUnderlineVars(n)

\* a run that carried both underline classes, colored-underline applied
\* with another color: the plain underline class is gone
C5_Witness ==
    /\ Toggled
    /\ op.styleType = "colored-underline"
    /\ op.value = V2
    /\ shouldApply
    /\ \E n \in RunIds :
          /\ Includes(SegClasses(n), UnderlineClass)
          /\ Includes(SegClasses(n), ColoredUnderlineClass)
          /\ ~Includes(OutClasses(n), UnderlineClass)
          /\ VarGet(OutVars(n), UnderlineColorVar) = V2

(***************************************************************************)
(* C6                                                                      *)
(***************************************************************************)

\* C6 as stated: after a toggleStyle request, on every output run and for
\* every value-bearing kind, the marker class is present if and only if the
\* value declaration is present
C6_MarkerIffDeclaration ==
    op.name = "toggleStyle" =>
        \A n \in 1..Len(outRuns) : \A k \in ValueStyles :
            Includes(OutClasses(n), TargetClass(k))
                <=> VarHas(OutVars(n), VarOf(k))

\* C6 amended: on every output run a marker class is present only with its
\* declaration holding a value that is not empty; a colored-underline
\* declaration is present only with its marker; a text-color, highlight or
\* circle declaration with a value and without its marker is present only
\* when the request was for another kind and the input run carried that
\* declaration without the marker: the marker is not added for it
C6_MarkerOnlyWithDeclaration ==
    Toggled =>
        \A n \in RunIds : \A k \in ValueStyles :
            /\ Includes(OutClasses(n), TargetClass(k)) =>
                  Truthy(VarGet(OutVars(n), VarOf(k)))
            /\ (VarHas(OutVars(n), UnderlineColorVar)
                    \/ VarHas(OutVars(n), UnderlineThicknessVar)) =>
                  Includes(OutClasses(n), ColoredUnderlineClass)
            /\ (/\ Truthy(VarGet(OutVars(n), VarOf(k)))
                /\ ~Includes(OutClasses(n), TargetClass(k))) =>
                  /\ op.styleType # k
                  /\ VarGet(SegVars(n), VarOf(k)) = VarGet(OutVars(n), VarOf(k))
                  /\ ~Includes(SegClasses(n), TargetClass(k))

\* bold requested on a run that carried the text-color marker without the
\* declaration: the marker is removed
C6_Witness ==
    /\ Toggled
    /\ op.styleType = "bold"
    /\ \E n \in RunIds :
          /\ Includes(SegClasses(n), ColoredClass)
          /\ ~VarHas(SegVars(n), TextColorVar)
          /\ ~Includes(OutClasses(n), ColoredClass)
          /\ Includes(OutClasses(n), BoldClass)

(***************************************************************************)
(* C7                                                                      *)
(***************************************************************************)

\* C7 as stated: for a toggleStyle request on a wrapped run, every class
\* token that is not a styler class and every style declaration whose key is
\* not a styler key is found unchanged in the wrapper the run is written with
C7_ForeignAttributesPreserved ==
    Toggled =>
        \A n \in RunIds :
            /\ \A c \in ForeignClasses(n) : Includes(extractClasses(OutTag(n)), c)
            /\ \A d \in ForeignDecls(n) : d \in Declarations(OutTag(n))

\* C7 amended: every class token that is not a styler class is found
\* unchanged in the wrapper the run is written with; of the declarations
\* whose key is not a styler key, those whose key starts with --styler- are
\* found unchanged and all others (color: red, font-size: 12px) are dropped
C7_ForeignClassesKeptPlainDeclarationsDropped ==
    Toggled =>
        \A n \in RunIds :
            /\ \A c \in ForeignClasses(n) : Includes(extractClasses(OutTag(n)), c)
            /\ \A d \in ForeignDecls(n) :
                  StartsWith(DeclKey(d), "--styler-")
                      <=> d \in Declarations(OutTag(n))

\* italic requested on a run with the class foo, font-size and --styler-foo:
\* foo and --styler-foo are kept, font-size is gone
C7_Witness ==
    /\ Toggled
    /\ op.styleType = "italic"
    /\ \E n \in RunIds :
          /\ "foo" \in ForeignClasses(n)
          /\ Decl("font-size", "12px") \in ForeignDecls(n)
          /\ Decl("--styler-foo", "1") \in ForeignDecls(n)
          /\ Includes(extractClasses(OutTag(n)), "foo")
          /\ Includes(extractClasses(OutTag(n)), ItalicClass)
          /\ Decl("--styler-foo", "1") \in Declarations(OutTag(n))
          /\ Decl("font-size", "12px") \notin Declarations(OutTag(n))

(***************************************************************************)
(* C8                                                                      *)
(***************************************************************************)

\* C8 as stated: a toggleStyle request for kind K leaves on every run the
\* class membership and the declaration values of every recognized style
\* other than K as they were, the two underlines counting as one style
C8_OtherStylesUnchanged ==
    Toggled =>
        \A n \in RunIds :
            OthersUnchanged(op.styleType, SegClasses(n), SegVars(n),
                            OutClasses(n), OutVars(n))

\* C8 amended: a toggleStyle request for kind K never adds a recognized style
\* other than K to a run and never changes its value; on a run written the
\* way the plugin writes runs (every marker class with its value, underline
\* declarations only with the colored-underline class, a thickness only with
\* its color) every recognized style other than K is left as it was. On
\* other runs the marker classes and declarations that lack their
\* counterpart are removed
C8_OtherStylesUnchangedOnConsistentRuns ==
    Toggled =>
        \A n \in RunIds :
            FrameOnRun(op.styleType, SegClasses(n), SegVars(n),
                       OutClasses(n), OutVars(n))

\* bold applied to a run with a text color, and bold removed from a run
\* that is also italic: the color and the italic class stay
C8_Witness ==
    /\ Toggled
    /\ op.styleType = "bold"
    /\ \E n \in RunIds :
          /\ Consistent(n)
          /\ \/ /\ shouldApply
                /\ VarGet(SegVars(n), TextColorVar) = V2
                /\ Includes(SegClasses(n), ColoredClass)
                /\ Includes(OutClasses(n), BoldClass)
                /\ Includes(OutClasses(n), ColoredClass)
                /\ VarGet(OutVars(n), TextColorVar) = V2
             \/ /\ ~shouldApply
                /\ Includes(SegClasses(n), ItalicClass)
                /\ Includes(SegClasses(n), BoldClass)
                /\ Includes(OutClasses(n), ItalicClass)
                /\ ~Includes(OutClasses(n), BoldClass)

(***************************************************************************)
(* C9                                                                      *)
(***************************************************************************)

RECURSIVE TagSpans(_, _)
\* the span tags of s found from position i on, one after the other, each
\* with the offsets [start, end) it occupies
TagSpans(s, i) ==
    LET m == TagRegexFrom(s, i)
    IN  IF m.index = 0 THEN {}
        ELSE {[start |-> m.index - 1, end |-> m.last]}
             \cup TagSpans(s, m.last + 1)

RunsAt(p) == {n \in RunIds : segments[n].start <= p /\ p < segments[n].end}

InTag(p) == \E t \in TagSpans(input, 1) : t.start <= p /\ p < t.end

\* C9: the runs parseSelection returns are in increasing offset order and do
\* not overlap, the text of each is the selection between its start and its
\* end, and every character of the selection is either inside exactly one
\* run or inside a span tag, never in both and never in neither
C9_RunsAndTagsPartitionSelection ==
    op.name # "none" =>
        /\ \A n \in RunIds :
              /\ 0 <= segments[n].start
              /\ segments[n].start < segments[n].end
              /\ segments[n].end <= Len(input)
              /\ segments[n].text
                    = SubSeq(input, segments[n].start + 1, segments[n].end)
        /\ \A n \in RunIds \ {Len(segments)} :
              segments[n].end <= segments[n + 1].start
        /\ (op.name = "removeAllStyling" \/ Toggled) =>
              \A p \in 0..(Len(input) - 1) :
                  \/ Cardinality(RunsAt(p)) = 1 /\ ~InTag(p)
                  \/ RunsAt(p) = {} /\ InTag(p)

(***************************************************************************)
(* C10                                                                     *)
(***************************************************************************)

\* C10: the text removeAllStyling leaves in place of the selection contains
\* no span start tag and no span end tag, also when the selection consists
\* of tags only
C10_NoSpanTagAfterRemoveAll ==
    op.name = "removeAllStyling" => TagRegexExec(doc).index = 0

(***************************************************************************)
(* C11                                                                     *)
(***************************************************************************)

\* C11: removeAllStyling is idempotent: carried out on the text an earlier
\* removeAllStyling has left, it leaves that text as it is
C11_RemoveAllStylingIdempotent ==
    [][(/\ Requested
        /\ op.name = "removeAllStyling"
        /\ op'.name = "removeAllStyling") => doc' = doc]_vars

(***************************************************************************)
(* C12                                                                     *)
(***************************************************************************)

\* C12: on a selection that is one unstyled run of tag-free text that is not
\* empty, the same request for bold, italic, underline or strike issued
\* twice in a row returns the original text
C12_ToggleTwiceRestoresText ==
    [][(/\ Requested
        /\ op.name = "toggleStyle"
        /\ op.styleType \in {"bold", "italic", "underline", "strike"}
        /\ input # ""
        /\ ~ContainsSpanTag(input)
        /\ op' = op) => doc' = input]_vars

(***************************************************************************)
(* C13                                                                     *)
(***************************************************************************)

\* C13: a text-color or highlight request with a null value on a selection
\* that is not empty leaves no output run with the declaration of that kind
\* or with its marker class
C13_NullValueRemovesColor ==
    (Toggled /\ op.styleType \in {"color", "highlight"} /\ op.value = Null) =>
        \A n \in RunIds :
            /\ ~VarHas(OutVars(n), VarOf(op.styleType))
            /\ ~Includes(OutClasses(n), TargetClass(op.styleType))

(***************************************************************************)
(* C14                                                                     *)
(***************************************************************************)

\* C14: a text-color or highlight request with a value V on an empty
\* selection inserts one wrapper with empty text that carries the
\* declaration of the kind with V, and sets the cursor right after the '>'
\* of the opening tag, before the closing </span>
C14_EmptySelectionInsertsWrapper ==
    (/\ op.name = "toggleStyle"
     /\ input = ""
     /\ op.styleType \in {"color", "highlight"}
     /\ Truthy(op.value)) =>
        /\ doc = Wrap(<<TargetClass(op.styleType)>>,
                      <<Decl(VarOf(op.styleType), op.value)>>, "")
        /\ Len(outRuns) = 1
        /\ outRuns[1].text = ""
        /\ VarGet(OutVars(1), VarOf(op.styleType)) = op.value
        /\ cursor > 0
        /\ CharAt(doc, cursor) = ">"
        /\ SubSeq(doc, cursor + 1, Len(doc)) = "</span>"
        /\ notice = ""

\* a highlight inserted at an empty selection, the cursor inside the wrapper
C14_Witness ==
    /\ op.name = "toggleStyle"
    /\ input = ""
    /\ op.styleType = "highlight"
    /\ op.value = V2
    /\ doc = Wrap(<<HighlightedClass>>, <<Decl(HighlightColorVar, V2)>>, "")
    /\ cursor = Len(doc) - Len("</span>")

(***************************************************************************)
(* C15                                                                     *)
(***************************************************************************)

\* C15 as stated: every toggleStyle request on an empty selection that is
\* not a text-color or highlight request with a value is rejected with the
\* selection-required notice, the text and the cursor left as they were
C15_EmptySelectionRejectedWithNotice ==
    (/\ op.name = "toggleStyle"
     /\ input = ""
     /\ ~(op.styleType \in {"color", "highlight"} /\ Truthy(op.value))) =>
        /\ notice = SelectionRequiredNotice
        /\ doc = ""
        /\ cursor = -1

\* C15 amended: every toggleStyle request on an empty selection that is not
\* a text-color or highlight request with a value leaves the text and the
\* cursor as they were; the selection-required notice is shown for bold,
\* italic, underline, strike, colored-underline and circled (with or
\* without a value), and no notice is shown for a text-color or highlight
\* request with a null value
C15_EmptySelectionLeftUnchanged ==
    (/\ op.name = "toggleStyle"
     /\ input = ""
     /\ ~(op.styleType \in {"color", "highlight"} /\ Truthy(op.value))) =>
        /\ doc = ""
        /\ cursor = -1
        /\ IF op.styleType \in {"color", "highlight"}
           THEN notice = ""
           ELSE notice = SelectionRequiredNotice

\* circled requested with a color on an empty selection: the notice is
\* shown and nothing is written
C15_Witness ==
    /\ op.name = "toggleStyle"
    /\ input = ""
    /\ op.styleType = "circled"
    /\ op.value = V1
    /\ notice = SelectionRequiredNotice
    /\ doc = ""
    /\ cursor = -1

(***************************************************************************)
(* C16                                                                     *)
(***************************************************************************)

\* C16 as stated: two output runs that carry the same set of classes and the
\* same declarations are written with the identical opening tag, the classes
\* in one canonical order whatever the order the styles were toggled on in
C16_SameAttributeSetSameTag ==
    Toggled =>
        \A n \in RunIds : \A m \in RunIds :
            (ClassSet(n) = ClassSet(m) /\ DeclSet(n) = DeclSet(m)) =>
                OutTag(n) = OutTag(m)

\* C16 amended: the opening tag of an output run is its class list and its
\* declaration list written in their order; the classes and declarations
\* the run already had keep the order they had, and those the request adds
\* come last. Two output runs with the same class list and the same
\* declaration list in the same order are written with the identical
\* opening tag; there is no canonical order
C16_TagFollowsInsertionOrder ==
    Toggled =>
        /\ \A n \in RunIds :
              /\ outRuns[n].wrapped =>
                    OutTag(n) = MkTag(OutClasses(n),
                                      [i \in 1..Len(OutVars(n)) |->
                                          Decl(OutVars(n)[i].key,
                                               OutVars(n)[i].val)])
              /\ FollowsOrder(SegClasses(n), OutClasses(n))
              /\ FollowsOrder(Keys(SegVars(n)), Keys(OutVars(n)))
        /\ \A n \in RunIds : \A m \in RunIds :
              (OutClasses(n) = OutClasses(m) /\ OutVars(n) = OutVars(m)) =>
                  OutTag(n) = OutTag(m)

\* a highlighted run given a text color and a colored run given a
\* highlight: the same two classes and declarations, in opposite orders
C16_Witness ==
    /\ Toggled
    /\ \E n \in RunIds : \E m \in RunIds :
          /\ OutClasses(n) = <<HighlightedClass, ColoredClass>>
          /\ OutClasses(m) = <<ColoredClass, HighlightedClass>>
          /\ DeclSet(n) = DeclSet(m)
          /\ OutTag(n) # OutTag(m)

(***************************************************************************)
(* C17                                                                     *)
(***************************************************************************)

C18_TagFreeSelectionIsOneRun ==
    (op.name # "none" /\ input # "" /\ ~ContainsSpanTag(input)) =>
        /\ Len(segments) = 1
        /\ segments[1].text = input
        /\ segments[1].start = 0
        /\ segments[1].end = Len(input)
        /\ segments[1].span.isNull

\* a text with angle brackets that are not span tags is one run
C18_Witness ==
    /\ op.name # "none"
    /\ input = "a < b >"
    /\ Len(segments) = 1
    /\ segments[1].text = "a < b >"
    /\ segments[1].span.isNull

(***************************************************************************)
(* C20                                                                     *)
(***************************************************************************)

\* C20: when a value-bearing kind is requested with a value V and some run
\* carries the marker class of the kind without its declaration, the
\* decision is apply, and every output run carries the marker class and the
\* declaration with V
C20_MarkerWithoutDeclarationIsRepaired ==
    (/\ Toggled
     /\ op.styleType \in ValueStyles
     /\ Truthy(op.value)
     /\ \E n \in RunIds :
           /\ Includes(SegClasses(n), TargetClass(op.styleType))
           /\ SegSlot(n, op.styleType) = Null) =>
        /\ shouldApply
        /\ \A n \in RunIds :
              /\ Includes(OutClasses(n), TargetClass(op.styleType))
              /\ VarGet(OutVars(n), VarOf(op.styleType)) = op.value

\* a run with the text color V1 and a run with the bare marker, text color
\* V1 requested: applied to both
C20_Witness ==
    /\ Toggled
    /\ op.styleType = "color"
    /\ op.value = V1
    /\ shouldApply
    /\ \E n \in RunIds : SegSlot(n, "color") = V1
    /\ \E n \in RunIds :
          /\ Includes(SegClasses(n), ColoredClass)
          /\ SegSlot(n, "color") = Null
          /\ VarGet(OutVars(n), TextColorVar) = V1
          /\ Includes(OutClasses(n), ColoredClass)

(***************************************************************************)
(* C19                                                                     *)
(***************************************************************************)

\* C19: after any sequence of edits of the two slot-count fields of the
\* settings tab, whatever is typed, textColorSlots and highlightColorSlots
\* are integers from 1 to 20 and textColors and highlightColors have that
\* many entries
C19_SlotCountsInRange ==
    /\ settings.textColorSlots \in 1..MAX_COLOR_SLOTS
    /\ settings.highlightColorSlots \in 1..MAX_COLOR_SLOTS
    /\ Len(settings.textColors) = settings.textColorSlots
    /\ Len(settings.highlightColors) = settings.highlightColorSlots

\* the text slots set to the least and the highlight slots to the greatest
\* count, by a value below and a value above the range
C19_Witness ==
    /\ settings.textColorSlots = 1
    /\ settings.textColors = <<DEFAULT_TEXT_COLOR>>
    /\ settings.highlightColorSlots = MAX_COLOR_SLOTS
    /\ Len(settings.highlightColors) = MAX_COLOR_SLOTS
    /\ settings.highlightColors[MAX_COLOR_SLOTS] = DEFAULT_HIGHLIGHT_COLOR

(***************************************************************************)
(* C21                                                                     *)
(***************************************************************************)

\* the span tags of the selection that end at or before offset p
TagsBefore(p) == {t \in TagSpans(input, 1) : t.end <= p}

\* the last of a set of tags that is not empty
LastTag(tags) == CHOOSE t \in tags : \A u \in tags : u.end <= t.end

TagText(t) == SubSeq(input, t.start + 1, t.end)

\* a span end tag, in any case as tagRegex matches it
IsEndTag(tagText) == ToLowerCase(Slice(tagText, 1, 6)) = "</span"

\* the wrapper of run n is the start tag tagText
WrappedBy(n, tagText) ==
    /\ ~segments[n].span.isNull
    /\ segments[n].span.startTag = tagText
    /\ segments[n].span.classList = extractClasses(tagText)

\* C21: the wrapper parseSelection attaches to a run is the most recent span
\* start tag before the run with no span end tag in between, and null
\* otherwise: a run before the first tag or after an end tag has no wrapper,
\* so in <span A>x<span B>y</span>z</span> the run y carries B alone and the
\* run z carries no wrapper
C21_WrapperIsLastOpenStartTag ==
    op.name # "none" =>
        \A n \in RunIds :
            \E before \in {TagsBefore(segments[n].start)} :
                IF before = {} THEN segments[n].span.isNull
                ELSE IF IsEndTag(TagText(LastTag(before)))
                THEN segments[n].span.isNull
                ELSE WrappedBy(n, TagText(LastTag(before)))

(***************************************************************************)
(* C22                                                                     *)
(***************************************************************************)

\* C22: after a toggleStyle request, on every output run the underline
\* thickness is declared only together with the underline color and the
\* circle thickness only together with the circle color; when
\* colored-underline or circled is removed, no run keeps the color or the
\* thickness declaration of that kind
C22_ThicknessOnlyWithColor ==
    op.name = "toggleStyle" =>
        \A n \in 1..Len(outRuns) :
            /\ VarHas(OutVars(n), UnderlineThicknessVar) =>
                  VarHas(OutVars(n), UnderlineColorVar)
            /\ VarHas(OutVars(n), CircleThicknessVar) =>
                  VarHas(OutVars(n), CircleColorVar)
            /\ (Toggled /\ ~shouldApply
                    /\ op.styleType \in {"colored-underline", "circled"}) =>
                  \A v \in VarsOf(op.styleType) : ~VarHas(OutVars(n), v)

\* bold requested on a run that declared a circle thickness without a circle
\* color: the run is written without the thickness
C22_Witness ==
    /\ Toggled
    /\ op.styleType = "bold"
    /\ \E n \in RunIds :
          /\ VarHas(SegVars(n), CircleThicknessVar)
          /\ ~VarHas(SegVars(n), CircleColorVar)
          /\ ~VarHas(OutVars(n), CircleThicknessVar)
          /\ Includes(OutClasses(n), BoldClass)

(***************************************************************************)
(* C23                                                                     *)
(***************************************************************************)

\* the classes "Remove Colors/Highlight" is to leave alone
KeptClasses == {BoldClass, ItalicClass, StrikeClass, UnderlineClass}

RECURSIVE Profile(_)
\* the characters of the run texts of a segment list, in order, each with
\* the kept classes of the wrapper of its run
Profile(segs) ==
    IF segs = <<>> THEN <<>>
    ELSE [i \in 1..Len(segs[1].text) |->
             [ch |-> CharAt(segs[1].text, i),
              classes |-> {c \in KeptClasses :
                              Includes(segs[1].span.classList, c)}]]
         \o Profile(Tail(segs))

\* a run carries no color, highlight or underline-color declaration and
\* none of their marker classes
NoColorStyling(segment) ==
    /\ \A v \in {TextColorVar, HighlightColorVar, UnderlineColorVar} :
          ~VarHas(InitialAttributes(segment.span).vars, v)
    /\ \A c \in {ColoredClass, HighlightedClass, ColoredUnderlineClass} :
          ~Includes(segment.span.classList, c)

\* C23: after the three requests of "Remove Colors/Highlight" (color null,
\* highlight null, colored-underline null, each on the text the one before
\* left) no run of the selection carries a text-color, highlight-color or
\* underline-color declaration or one of their marker classes, and every
\* run keeps its bold, italic, strike and plain underline classes
C23_RemoveColorsLeavesNoColor ==
    (op.name = "removeColorsHighlight" /\ input # "") =>
        \E final \in {parseSelection(doc)} :
            /\ \A n \in 1..Len(final) : NoColorStyling(final[n])
            /\ Profile(final) = Profile(segments)

(***************************************************************************)
(* C24                                                                     *)
(***************************************************************************)

\* C24: after a toggleStyle request on a selection that is not empty the
\* requested style is uniform over the output: for bold, italic, underline
\* and strike either every output run carries the class or none does, and
\* for a value-bearing kind requested with a value V either every output run
\* carries the value slot with exactly V or no output run carries the slot
C24_RequestedStyleUniform ==
    Toggled =>
        /\ op.styleType \in {"bold", "italic", "underline", "strike"} =>
              \/ \A n \in RunIds :
                    Includes(OutClasses(n), TargetClass(op.styleType))
              \/ \A n \in RunIds :
                    ~Includes(OutClasses(n), TargetClass(op.styleType))
        /\ (op.styleType \in ValueStyles /\ Truthy(op.value)) =>
              \/ \A n \in RunIds :
                    VarGet(OutVars(n), VarOf(op.styleType)) = op.value
              \/ \A n \in RunIds :
                    ~VarHas(OutVars(n), VarOf(op.styleType))

\* a text color requested over a run of that color and a run of another
\* color: both runs end with the requested color
C24_Witness ==
    /\ Toggled
    /\ op.styleType = "color"
    /\ op.value = V2
    /\ \E n \in RunIds : SegSlot(n, "color") = V2
    /\ \E n \in RunIds : SegSlot(n, "color") = V1
    /\ \A n \in RunIds : VarGet(OutVars(n), TextColorVar) = V2

(***************************************************************************)
(* C25                                                                     *)
(***************************************************************************)

\* the run texts of a segment list, one after the other
RunTexts(segs) == Concat([n \in 1..Len(segs) |-> segs[n].text])

\* C25: toggleStyle never changes the text content: for a selection that is
\* not empty and any request, the run texts of the output (the output with
\* its span tags removed), one after the other, are the run texts of the
\* input in the same order
C25_TextContentUnchanged ==
    Toggled => RunTexts(parseSelection(doc)) = RunTexts(segments)

(***************************************************************************)
(* C26                                                                     *)
(***************************************************************************)

\* C26: repeated toggling has period two: for a selection that is not empty
\* and a fixed request, the request carried out three times in a row, each
\* time on the text the time before left, leaves exactly the text the first
\* time left
C26_ThirdToggleEqualsFirst ==
    Toggled =>
        ToggledText(ToggledText(doc, op.styleType, op.value, settings),
                    op.styleType, op.value, settings) = doc

(***************************************************************************)
(* C27                                                                     *)
(***************************************************************************)

\* C27: no run parseSelection returns has a text that contains a span start
\* tag or a span end tag: tags are boundaries and never run text, also for
\* a selection that is not empty and consists of tags only
C27_NoSpanTagInRunText ==
    op.name # "none" =>
        \A n \in RunIds : TagRegexExec(segments[n].text).index = 0

(***************************************************************************)
(* C28                                                                     *)
(***************************************************************************)

\* the class list and the declarations of the wrapper of run n before the
\* request are those it is written with
SameWrapperAttributes(n) ==
    /\ OutClasses(n) = SegClasses(n)
    /\ Declarations(OutTag(n))
          = (IF segments[n].span.isNull THEN {}
             ELSE Declarations(segments[n].span.startTag))

\* C28 as stated: after a circled request with a null value no output run
\* carries the circled class; when some run is circled the request removes
\* circled from every run, and when no run is circled it leaves the classes
\* and declarations of every run as they were
C28_CircledNullLeavesRunsAsTheyWere ==
    (Toggled /\ op.styleType = "circled" /\ op.value = Null) =>
        /\ \A n \in RunIds : ~Includes(OutClasses(n), CircledClass)
        /\ shouldApply => \A n \in RunIds : SameWrapperAttributes(n)

\* C28 amended: after a circled request with a null value no output run
\* carries the circled class, a circle color with a value or a circle
\* thickness. When some run is circled (class or circle-color declaration)
\* the decision is remove. When no run is circled no other recognized style
\* is added or changed, and a run written the way the plugin writes runs
\* keeps every recognized style; on other runs marker classes and
\* declarations that lack their counterpart are removed, and declarations
\* whose key does not start with --styler- are dropped
C28_CircledNullNeverLeavesCircled ==
    (Toggled /\ op.styleType = "circled" /\ op.value = Null) =>
        /\ \A n \in RunIds :
              /\ ~Includes(OutClasses(n), CircledClass)
              /\ ~Truthy(VarGet(OutVars(n), CircleColorVar))
              /\ ~VarHas(OutVars(n), CircleThicknessVar)
        /\ ~shouldApply <=>
              \E n \in RunIds :
                 \/ Includes(SegClasses(n), CircledClass)
                 \/ SegSlot(n, "circled") # Null
        /\ shouldApply =>
              \A n \in RunIds :
                 FrameOnRun("circled", SegClasses(n), SegVars(n),
                            OutClasses(n), OutVars(n))

\* circled requested with a null value over a bold run and no circled run:
\* nothing is circled and the bold run is written as it was
C28_Witness ==
    /\ Toggled
    /\ op.styleType = "circled"
    /\ op.value = Null
    /\ shouldApply
    /\ \E n \in RunIds :
          /\ Includes(SegClasses(n), BoldClass)
          /\ OutClasses(n) = SegClasses(n)
    /\ \A n \in RunIds : ~Includes(OutClasses(n), CircledClass)

(***************************************************************************)
(* C29                                                                     *)
(***************************************************************************)

\* C29: in every state reached by slot-count changes in the settings tab,
\* clicks on status-bar cells and cycleColorSlot calls in any order, without
\* loading the plugin again, 0 <= selectedTextColorIndex < textColorSlots
\* and 0 <= selectedHighlightColorIndex < highlightColorSlots: the selected
\* slot names an entry of the color array
C29_SelectedIndexInRange ==
    /\ settings.selectedTextColorIndex \in 0..(settings.textColorSlots - 1)
    /\ settings.selectedHighlightColorIndex
          \in 0..(settings.highlightColorSlots - 1)
    /\ settings.selectedTextColorIndex + 1 \in DOMAIN settings.textColors
    /\ settings.selectedHighlightColorIndex + 1
          \in DOMAIN settings.highlightColors


(***************************************************************************)
(* C30                                                                     *)
(***************************************************************************)

SlotCountOf(config, type) ==
    IF type = "text" THEN config.textColorSlots
    ELSE config.highlightColorSlots

SelectedIndexOf(config, type) ==
    IF type = "text" THEN config.selectedTextColorIndex
    ELSE config.selectedHighlightColorIndex

\* the settings with the selected index of one palette replaced
WithSelectedIndex(config, type, index) ==
    IF type = "text" THEN [config EXCEPT !.selectedTextColorIndex = index]
    ELSE [config EXCEPT !.selectedHighlightColorIndex = index]

\* C30: for a palette with slotCount >= 1 and a selected index in
\* [0, slotCount), cycleColorSlot gives an index in [0, slotCount); forward
\* from slotCount - 1 gives 0 and backward from 0 gives slotCount - 1; it
\* changes nothing but the selected index of the palette it is called for;
\* forward then backward, and backward then forward, give the index back
C30_CycleStaysInRangeAndInverts ==
    \A type \in PaletteTypes :
        \E slotCount \in {SlotCountOf(settings, type)} :
        \E currentIdx \in {SelectedIndexOf(settings, type)} :
            (slotCount >= 1 /\ currentIdx \in 0..(slotCount - 1)) =>
                \E forward \in {cycleColorSlot(settings, type, "forward")} :
                \E backward \in {cycleColorSlot(settings, type, "backward")} :
                    /\ SelectedIndexOf(forward, type) \in 0..(slotCount - 1)
                    /\ SelectedIndexOf(backward, type) \in 0..(slotCount - 1)
                    /\ currentIdx = slotCount - 1
                          => SelectedIndexOf(forward, type) = 0
                    /\ currentIdx < slotCount - 1
                          => SelectedIndexOf(forward, type) = currentIdx + 1
                    /\ currentIdx = 0
                          => SelectedIndexOf(backward, type) = slotCount - 1
                    /\ currentIdx > 0
                          => SelectedIndexOf(backward, type) = currentIdx - 1
                    /\ forward = WithSelectedIndex(settings, type,
                                     SelectedIndexOf(forward, type))
                    /\ backward = WithSelectedIndex(settings, type,
                                      SelectedIndexOf(backward, type))
                    /\ cycleColorSlot(forward, type, "backward") = settings
                    /\ cycleColorSlot(backward, type, "forward") = settings

\* the backward cycle command has wrapped the text palette from slot 0 to
\* its last slot, a slot the status bar has no cell for
C30_Witness ==
    /\ op = [name |-> "cycleColorSlot", styleType |-> "text",
             value |-> "backward"]
    /\ settings.textColorSlots = 7
    /\ settings.selectedTextColorIndex = 6

====
